---- MODULE Spec2Model ----
(***************************************************************************)
(* Model of crate2nix's hash prefetching (src/crate2nix/src/prefetch.rs)   *)
(* and of its build wrapper (src/crate2nix/src/nix_build.rs).              *)
(*                                                                         *)
(* One behaviour of Spec is a sequence of invocations of `prefetch`        *)
(* against the same cache file (config.crate_hashes_json).  Every          *)
(* invocation receives the resolver's package list afresh; the cache file  *)
(* is the only state of the program that survives from one invocation to   *)
(* the next.  FairSpec is Spec with the runtime driving every run to its   *)
(* end.  A behaviour of BuildSpec is one call of `nix_build`, a behaviour  *)
(* of FetchSpec one call of a fetcher on its own.                          *)
(*                                                                         *)
(* Strings are sequences of one-character strings, so that trimming is a   *)
(* real computation.  An Option<String> is a sequence of length 0 (None)   *)
(* or 1 (Some).  A BTreeMap<PackageId, String> is a function whose domain  *)
(* is the set of keys.                                                     *)
(***************************************************************************)
EXTENDS Integers, Sequences, FiniteSets, TLC

VARIABLES
    input,              \* the package list handed to every invocation
    crate_derivations,  \* the caller's &mut [CrateDerivation]
    cache_file,         \* content of config.crate_hashes_json
    n_concurrent_tasks, \* the admission cap of buffer_unordered
    pc,                 \* position of the invocation
    result,             \* "none" while running, "ok", or the error
    old_hashes,         \* the mapping loaded at the start
    hashes,             \* the mapping built for this run
    packages,           \* indices of the selected derivations, list order
    next_task,          \* position of the next task the stream yields
    inflight,           \* positions admitted and not yet completed
    ready_queue,        \* positions the buffer is to poll, in order
    running,            \* positions whose external command is running
    outcome,            \* per position: Option of how its command exited
    failed,             \* positions whose fetch returned an error
    abandoned,          \* positions in flight when the run was aborted
    triples,            \* results in completion order
    invocations,        \* per package: external commands started this run
    fetch_result,       \* per package: Option of the hash its own fetch gave
    pb_len,             \* progress bar length
    pb_pos,             \* progress bar position
    reads,              \* reads of the cache file this run
    writes,             \* fs::write calls on the cache file this run
    file_before,        \* cache file content when the run started
    prev_run,           \* what the previous invocation returned, if Ok
    default_nix,        \* nix_build: the generated build file
    build_pc,           \* nix_build: position of the call
    nix_status,         \* nix_build: Option of the builder's ExitStatus
    dumped,             \* nix_build: lines written to standard output
    idx,                \* nix_build: lines of the file dumped so far
    build_result,       \* nix_build: "none" while running, Ok or Err
    fetcher,            \* single fetch: the fetcher that is called
    fetch_derivation,   \* single fetch: the derivation it is called on
    fetch_pc,           \* single fetch: position of the call
    fetch_proc,         \* single fetch: Option of how its command went
    commands_started,   \* single fetch: external commands started
    fetch_value         \* single fetch: "none" while running, Ok or Err

vars == << input, crate_derivations, cache_file, n_concurrent_tasks, pc,
           result, old_hashes, hashes, packages, next_task, inflight,
           ready_queue, running, outcome, failed, abandoned, triples,
           invocations, fetch_result, pb_len, pb_pos, reads, writes,
           file_before, prev_run, default_nix, build_pc, nix_status, dumped,
           idx, build_result, fetcher, fetch_derivation, fetch_pc, fetch_proc,
           commands_started, fetch_value >>

\* The state of a call of nix_build.
build_vars ==
    << default_nix, build_pc, nix_status, dumped, idx, build_result >>

\* The state of a single call of a fetcher.
fetch_vars ==
    << fetcher, fetch_derivation, fetch_pc, fetch_proc, commands_started,
       fetch_value >>

\* The state of the invocations of prefetch.
prefetch_vars ==
    << input, crate_derivations, cache_file, n_concurrent_tasks, pc,
       result, old_hashes, hashes, packages, next_task, inflight,
       ready_queue, running, outcome, failed, abandoned, triples,
       invocations, fetch_result, pb_len, pb_pos, reads, writes,
       file_before, prev_run >>

(***************************************************************************)
(* Bounds of the model.  The cap of the code is num_cpus::get() * 10; the  *)
(* model takes every cap from 1 to MaxCap, so that lists of MaxPackages    *)
(* packages run both below and above it.                                   *)
(***************************************************************************)
MaxPackages == 2
MaxCap == 2
\* Lines of the generated build file.
MaxLines == 2

(***************************************************************************)
(* Strings.                                                                *)
(***************************************************************************)
Whitespace == {" ", "\n"}

RECURSIVE TrimStart(_)
TrimStart(s) ==
    IF s # << >> /\ Head(s) \in Whitespace THEN TrimStart(Tail(s)) ELSE s

RECURSIVE TrimEnd(_)
TrimEnd(s) ==
    IF s # << >> /\ s[Len(s)] \in Whitespace
    THEN TrimEnd(SubSeq(s, 1, Len(s) - 1))
    ELSE s

\* str::trim
Trim(s) == TrimEnd(TrimStart(s))

None == << >>
Some(x) == << x >>

EmptyMap == << >>

\* BTreeMap::insert
Insert(m, k, v) == [x \in DOMAIN m \cup {k} |-> IF x = k THEN v ELSE m[x]]

(***************************************************************************)
(* Sources.                                                                *)
(***************************************************************************)
CratesIo(sha) == [kind |-> "CratesIo", url |-> "", sha256 |-> sha]
Git(u, sha) == [kind |-> "Git", url |-> u, sha256 |-> sha]
\* Any source that is neither CratesIo nor Git.
Other == [kind |-> "Other", url |-> "", sha256 |-> None]

\* ResolvedSource::with_sha256
WithSha256(source, sha) ==
    IF source.kind \in {"CratesIo", "Git"}
    THEN [source EXCEPT !.sha256 = Some(sha)]
    ELSE source

(***************************************************************************)
(* The external commands.  A process outcome is what Command::output()     *)
(* gives: whether the command could be spawned, its exit status and the    *)
(* bytes of its standard output.                                           *)
(***************************************************************************)
InvalidByte == "<FF>"

Ok(v) == [ok |-> TRUE, value |-> v, error |-> ""]
Err(e) == [ok |-> FALSE, value |-> << >>, error |-> e]

Proc(status, stdout) == [status |-> status, stdout |-> stdout]

\* String::from_utf8
IsUtf8(bytes) == \A i \in 1..Len(bytes) : bytes[i] # InvalidByte

\* Faulty variant of GetCommandOutput: the exit status is not looked at.
GetCommandOutputAnyStatus(proc) ==
    IF proc.status = "spawn_failed" THEN Err("ProcessSpawnFailed")
    ELSE IF ~IsUtf8(proc.stdout) THEN Err("OutputNotDecodable")
    ELSE Ok(Trim(proc.stdout))

\* get_command_output
GetCommandOutput(proc) ==
    IF proc.status = "spawn_failed" THEN Err("ProcessSpawnFailed")
    ELSE IF proc.status # "success" THEN Err("ProcessExitedNonzero")
    ELSE IF ~IsUtf8(proc.stdout) THEN Err("OutputNotDecodable")
    ELSE Ok(Trim(proc.stdout))

\* nix_prefetch_from_crates_io
NixPrefetchFromCratesIo(crate_derivation, proc) == GetCommandOutput(proc)

\* serde_json::from_str::<NixPrefetchGitInfo>: the payload is written
\* "{" sha256 "}", the braces standing for the JSON object around the field.
ParseNixPrefetchGitInfo(json) ==
    IF Len(json) >= 2 /\ Head(json) = "{" /\ json[Len(json)] = "}"
    THEN Ok(SubSeq(json, 2, Len(json) - 1))
    ELSE Err("OutputNotDecodable")

\* nix_prefetch_from_git
NixPrefetchFromGit(crate_derivation, proc) ==
    IF crate_derivation.source.kind = "Git"
    THEN LET json == GetCommandOutput(proc)
         IN  IF json.ok THEN ParseNixPrefetchGitInfo(json.value) ELSE json
    ELSE Err("UnexpectedSourceKind")

\* What the fake commands of the model can do.
UrlStdouts == { <<"a">>, <<"b">>, <<"a", "\n">>, <<InvalidByte>> }
GitStdouts == { <<"{", "b", "}">>, <<"{", " ", "b", "}", "\n">>, <<"b">> }

\* The command cannot be started.
SpawnFailure == Proc("spawn_failed", << >>)

\* The ways a started command of the model can exit.
ExitsFor(kind) ==
    { Proc("exit_nonzero", << >>) }
    \cup { Proc("success", out) :
             out \in IF kind = "Git" THEN GitStdouts ELSE UrlStdouts }

(***************************************************************************)
(* prefetch: selection, the task body, reassembly.                         *)
(***************************************************************************)
\* Faulty variant of IsSelected: version-control sources are left out.
IsSelectedRegistryOnly(c) ==
    c.source.kind = "CratesIo" /\ c.source.sha256 = None

\* Faulty variant of IsSelected: no package is skipped.
IsSelectedAll(c) == TRUE

\* The filter of prefetch: CratesIo { sha256: None } and Git { .. }.
IsSelected(c) ==
    \/ c.source.kind = "CratesIo" /\ c.source.sha256 = None
    \/ c.source.kind = "Git"

RECURSIVE FilterFrom(_, _)
FilterFrom(ds, k) ==
    IF k > Len(ds) THEN << >>
    ELSE (IF IsSelected(ds[k]) THEN << k >> ELSE << >>) \o FilterFrom(ds, k + 1)

\* packages: the selected derivations, as indices into crate_derivations.
SelectPackages(ds) == FilterFrom(ds, 1)

\* old_hashes.contains_key / old_hashes.get is Some
IsCached(old, package_id) == package_id \in DOMAIN old

\* without_hash_num: unique sources among selected packages without a hash.
WithoutHashNum(ds, pk, old) ==
    Cardinality({ ds[pk[i]].source :
                    i \in { j \in 1..Len(pk) :
                              ~IsCached(old, ds[pk[j]].package_id) } })

\* The hash a task takes from the loaded cache.
CachedHash(hash) == Trim(hash)

\* The fetcher a task calls for a package without a cached hash.
Fetch(package, proc) ==
    IF package.source.kind = "CratesIo"
    THEN NixPrefetchFromCratesIo(package, proc)
    ELSE NixPrefetchFromGit(package, proc)

\* The triple a task yields.
Triple(package, sha256) ==
    [ source |-> WithSha256(package.source, sha256),
      package_id |-> package.package_id,
      sha256 |-> sha256 ]

\* Faulty variant of FreshHashes: the new mapping starts from the old one.
CarriedOverHashes(old) == old

\* let mut hashes = BTreeMap::new(): only used hashes are copied over.
FreshHashes(old) == EmptyMap

\* Faulty variant of InsertedKey: the key is taken from the zipped package.
InsertedKeyByPosition(package, triple) == package.package_id

\* The key of hashes.insert in the loop over packages zipped with triples.
InsertedKey(package, triple) == triple.package_id

RECURSIVE InsertTriples(_, _, _, _, _)
InsertTriples(h, ds, pk, ts, i) ==
    IF i > Len(pk) \/ i > Len(ts) THEN h
    ELSE InsertTriples(Insert(h, InsertedKey(ds[pk[i]], ts[i]), ts[i].sha256),
                       ds, pk, ts, i + 1)

\* package.source = source, for each package zipped with the triples.
ZipSources(ds, pk, ts) ==
    [ k \in 1..Len(ds) |->
        IF \E i \in 1..Len(pk) : pk[i] = k /\ i <= Len(ts)
        THEN LET i == CHOOSE j \in 1..Len(pk) : pk[j] = k
             IN  [ ds[k] EXCEPT !.source = ts[i].source ]
        ELSE ds[k] ]

\* Faulty variant of WriteNeeded: the file is written on every run.
WriteAlways(h, old) == TRUE

\* hashes != old_hashes
WriteNeeded(h, old) == h # old

\* The content of the cache file as prefetch reads it.
Missing == [kind |-> "missing", map |-> EmptyMap]
\* The file exists but read_to_string fails on it (its bytes are not text).
NotText == [kind |-> "not_text", map |-> EmptyMap]
\* The file is text but not a JSON object of hashes.
Corrupt == [kind |-> "corrupt", map |-> EmptyMap]
Json(m) == [kind |-> "json", map |-> m]

\* Faulty variant of LoadedHashes: the file is never consulted.
LoadedNothing(file) == EmptyMap

\* read_to_string(..).unwrap_or_else(|_| "{}") and serde_json::from_str
LoadedHashes(file) == IF file.kind = "json" THEN file.map ELSE EmptyMap

(***************************************************************************)
(* The build wrapper: nix_build and dump_with_lines.  The generated build  *)
(* file is a sequence of lines, or cannot be opened; a line that holds an  *)
(* invalid byte cannot be read as text.  An ExitStatus is whether the      *)
(* builder succeeded and the Option of its exit code (None when a signal   *)
(* ended it).                                                              *)
(***************************************************************************)
Unreadable == [kind |-> "unreadable", lines |-> << >>]
BuildFile(lines) == [kind |-> "file", lines |-> lines]

ExitStatus(success, code) == [success |-> success, code |-> code]

DigitChars == <<"0", "1", "2", "3", "4", "5", "6", "7", "8", "9">>

\* Display of an unsigned integer.
RECURSIVE Digits(_)
Digits(n) ==
    IF n < 10
    THEN << DigitChars[n + 1] >>
    ELSE Digits(n \div 10) \o << DigitChars[(n % 10) + 1] >>

\* The width of the line-number column in "{:>5}: {}".
DumpWidth == 5

\* "{:>w}": spaces are put before s until it is w wide; a wider s is kept.
RECURSIVE PadLeft(_, _)
PadLeft(s, w) == IF Len(s) >= w THEN s ELSE PadLeft(<< " " >> \o s, w)

\* writeln!(handle, "{:>5}: {}", idx + 1, line): i is the 0-based index.
DumpLine(i, line) == PadLeft(Digits(i + 1), DumpWidth) \o << ":", " " >> \o line

\* bail!("nix-build {}\n=> exited with: {}", .., status.code().unwrap_or(-1))
BuildFailed(status) ==
    [ok |-> FALSE, value |-> << >>, error |-> "BuildFailed",
     code |-> IF status.code = None THEN -1 ELSE status.code[1]]

(***************************************************************************)
(* Inputs of the model.                                                    *)
(***************************************************************************)
Sources ==
    { CratesIo(None), CratesIo(Some(<<"a">>)),
      Git("u", None), Git("u", Some(<<"b">>)), Other }

\* Package lists: the k-th package has identity k.
PackageLists ==
    { [ k \in 1..n |-> [package_id |-> k, source |-> f[k]] ] :
        n \in 0..MaxPackages, f \in [1..MaxPackages -> Sources] }

\* Hashes the cache file holds at the outset, written by an earlier run or
\* by hand; later runs load what earlier runs wrote.
CachedTexts == { <<"a">>, <<" ", "a">> }

\* Identities a cache file may hold: those of the list and one more.
CachedIds == 1..(MaxPackages + 1)

\* A cache file is missing, not text, malformed, or a JSON object of one
\* hand.
CacheFiles ==
    { Missing, NotText, Corrupt }
    \cup { Json([id \in S |-> t]) : S \in SUBSET CachedIds, t \in CachedTexts }

\* Lines of a generated build file: text, empty, or not text.
FileLines == { <<"a">>, << >>, <<InvalidByte>> }

\* Build files of up to MaxLines lines, and the file that cannot be opened.
BuildFiles ==
    { Unreadable }
    \cup { BuildFile(ls) : ls \in UNION { [1..n -> FileLines] : n \in 0..MaxLines } }

\* How the builder can end: success, two exit codes, a signal.
BuilderStatuses ==
    { ExitStatus(TRUE, Some(0)), ExitStatus(FALSE, Some(1)),
      ExitStatus(FALSE, Some(2)), ExitStatus(FALSE, None) }

\* Derivations a fetcher can be called on.
FetchDerivations ==
    { [package_id |-> k, source |-> src] : k \in 1..MaxPackages, src \in Sources }

\* How the command of a fetcher called on its own can exit.
FetchExits ==
    { Proc("exit_nonzero", << >>), Proc("exit_nonzero", <<"a">>) }
    \cup { Proc("success", out) :
              out \in UrlStdouts \cup GitStdouts
                       \cup { << >>, <<"{", InvalidByte, "}">> } }

NoFetches == [k \in 1..MaxPackages |-> None]
NoOutcomes == [k \in 1..MaxPackages |-> None]
NoInvocations == [k \in 1..MaxPackages |-> 0]
\* No previous invocation, or one that failed.
NoRun == [ok |-> FALSE, hashes |-> EmptyMap, file_kind |-> "missing"]

\* nix_build is not called.
BuildIdle ==
    /\ default_nix = Unreadable
    /\ build_pc = "idle"
    /\ nix_status = None
    /\ dumped = << >>
    /\ idx = 0
    /\ build_result = "none"

\* No fetcher is called on its own.
FetchIdle ==
    /\ fetcher = "none"
    /\ fetch_derivation = [package_id |-> 1, source |-> Other]
    /\ fetch_pc = "idle"
    /\ fetch_proc = None
    /\ commands_started = 0
    /\ fetch_value = "none"

Init ==
    /\ input \in PackageLists
    /\ crate_derivations = input
    /\ cache_file \in CacheFiles
    /\ n_concurrent_tasks \in 1..MaxCap
    /\ pc = "start"
    /\ result = "none"
    /\ old_hashes = EmptyMap
    /\ hashes = EmptyMap
    /\ packages = << >>
    /\ next_task = 1
    /\ inflight = {}
    /\ ready_queue = << >>
    /\ running = {}
    /\ outcome = NoOutcomes
    /\ failed = {}
    /\ abandoned = {}
    /\ triples = << >>
    /\ invocations = NoInvocations
    /\ fetch_result = NoFetches
    /\ pb_len = 0
    /\ pb_pos = 0
    /\ reads = 0
    /\ writes = 0
    /\ file_before = cache_file
    /\ prev_run = NoRun
    /\ BuildIdle
    /\ FetchIdle

(***************************************************************************)
(* The steps of one invocation of prefetch.                                *)
(***************************************************************************)
\* prefetch returns: Ok(hashes) when res = "ok", the error otherwise.
Return(res) ==
    /\ pc' = "done"
    /\ result' = res

\* Faulty variant of LoadCacheCorrupt: a malformed file is taken as empty.
LoadCacheCorruptIgnored ==
    /\ pc = "start"
    /\ cache_file.kind = "corrupt"
    /\ reads' = reads + 1
    /\ old_hashes' = EmptyMap
    /\ hashes' = EmptyMap
    /\ packages' = SelectPackages(crate_derivations)
    /\ pb_len' = WithoutHashNum(crate_derivations, packages', old_hashes')
    /\ pc' = "running"
    /\ UNCHANGED << input, crate_derivations, cache_file, n_concurrent_tasks,
                    result, next_task, inflight,
                    ready_queue, running, outcome, abandoned, triples,
                    invocations, fetch_result, pb_pos, writes, file_before,
                    prev_run, failed >>
    /\ UNCHANGED << build_vars, fetch_vars >>

\* The cache file does not parse: serde_json::from_str(..)? returns the error.
LoadCacheCorrupt ==
    /\ pc = "start"
    /\ cache_file.kind = "corrupt"
    /\ reads' = reads + 1
    /\ Return("CacheCorrupt")
    /\ UNCHANGED << input, crate_derivations, cache_file, n_concurrent_tasks,
                    old_hashes, hashes, packages, next_task, inflight,
                    ready_queue, running, outcome,
                    abandoned, triples, invocations, fetch_result, pb_len,
                    pb_pos, writes, file_before, prev_run, failed >>
    /\ UNCHANGED << build_vars, fetch_vars >>

\* Reading the cache, selecting the packages, sizing the progress bar.
LoadCache ==
    /\ pc = "start"
    /\ cache_file.kind # "corrupt"
    /\ reads' = reads + 1
    /\ old_hashes' = LoadedHashes(cache_file)
    /\ hashes' = FreshHashes(old_hashes')
    /\ packages' = SelectPackages(crate_derivations)
    /\ pb_len' = WithoutHashNum(crate_derivations, packages', old_hashes')
    /\ pc' = "running"
    /\ UNCHANGED << input, crate_derivations, cache_file, n_concurrent_tasks,
                    result, next_task, inflight,
                    ready_queue, running, outcome, abandoned, triples,
                    invocations, fetch_result, pb_pos, writes, file_before,
                    prev_run, failed >>
    /\ UNCHANGED << build_vars, fetch_vars >>

\* Faulty variant of AdmissionOpen: a cap of zero.
AdmissionClosed == FALSE

\* Faulty variant of AdmissionOpen: the stream is pulled without a cap.
AdmissionAlwaysOpen == TRUE

\* buffer_unordered(n): the stream is pulled while fewer than n are in flight.
AdmissionOpen == Cardinality(inflight) < n_concurrent_tasks

\* buffer_unordered polls its tasks only after pulling all it may.
BufferFilled == next_task > Len(packages) \/ ~AdmissionOpen

\* Faulty variant of NeedsFetch: the cache is not consulted by the task.
NeedsFetchAlways(package) == TRUE

\* A task calls a fetcher when its package has no cached hash.
NeedsFetch(package) == ~IsCached(old_hashes, package.package_id)

\* The task the buffer polls next: tasks are polled in the order in which
\* they were admitted or woken.
Polled == Head(ready_queue)
PolledPackage == crate_derivations[packages[Polled]]

\* buffer_unordered admits the next task of the stream.
Admit ==
    /\ pc = "running"
    /\ next_task <= Len(packages)
    /\ AdmissionOpen
    /\ inflight' = inflight \cup {next_task}
    /\ ready_queue' = Append(ready_queue, next_task)
    /\ next_task' = next_task + 1
    /\ UNCHANGED << input, crate_derivations, cache_file, n_concurrent_tasks,
                    pc, result, old_hashes, hashes, packages, running,
                    outcome, failed, abandoned, triples, invocations,
                    fetch_result, pb_len, pb_pos, reads, writes, file_before,
                    prev_run >>
    /\ UNCHANGED << build_vars, fetch_vars >>

\* Faulty variant of TaskCached: a cache hit advances the progress bar.
TaskCachedCounting ==
    /\ pc = "running"
    /\ ready_queue # << >>
    /\ BufferFilled
    /\ ~NeedsFetch(PolledPackage)
    /\ triples' = Append(triples,
           Triple(PolledPackage, CachedHash(old_hashes[PolledPackage.package_id])))
    /\ inflight' = inflight \ {Polled}
    /\ ready_queue' = Tail(ready_queue)
    /\ pb_pos' = pb_pos + 1
    /\ UNCHANGED << input, crate_derivations, cache_file, n_concurrent_tasks,
                    pc, result, old_hashes, hashes, packages, next_task,
                    running, outcome, failed, abandoned, invocations,
                    fetch_result, pb_len, reads, writes, file_before,
                    prev_run >>
    /\ UNCHANGED << build_vars, fetch_vars >>

\* A task whose package has a cached hash yields its triple when polled.
TaskCached ==
    /\ pc = "running"
    /\ ready_queue # << >>
    /\ BufferFilled
    /\ ~NeedsFetch(PolledPackage)
    /\ triples' = Append(triples,
           Triple(PolledPackage, CachedHash(old_hashes[PolledPackage.package_id])))
    /\ inflight' = inflight \ {Polled}
    /\ ready_queue' = Tail(ready_queue)
    /\ UNCHANGED << input, crate_derivations, cache_file, n_concurrent_tasks,
                    pc, result, old_hashes, hashes, packages, next_task,
                    running, outcome, failed, abandoned, invocations,
                    fetch_result, pb_len, pb_pos, reads, writes, file_before,
                    prev_run >>
    /\ UNCHANGED << build_vars, fetch_vars >>

\* A task without a cached hash, polled for the first time, starts its
\* external command and waits for it.
TaskSpawned ==
    /\ pc = "running"
    /\ ready_queue # << >>
    /\ BufferFilled
    /\ NeedsFetch(PolledPackage)
    /\ outcome[Polled] = None
    /\ invocations' = [invocations EXCEPT ![PolledPackage.package_id] = @ + 1]
    /\ running' = running \cup {Polled}
    /\ ready_queue' = Tail(ready_queue)
    /\ UNCHANGED << input, crate_derivations, cache_file, n_concurrent_tasks,
                    pc, result, old_hashes, hashes, packages, next_task,
                    inflight, outcome, failed, abandoned, triples,
                    fetch_result, pb_len, pb_pos, reads, writes, file_before,
                    prev_run >>
    /\ UNCHANGED << build_vars, fetch_vars >>

\* The external command of a waiting task exits; the task is woken.
CommandExits(i) ==
    /\ pc = "running"
    /\ i \in running
    /\ \E proc \in ExitsFor(crate_derivations[packages[i]].source.kind) :
         outcome' = [outcome EXCEPT ![i] = Some(proc)]
    /\ running' = running \ {i}
    /\ ready_queue' = Append(ready_queue, i)
    /\ UNCHANGED << input, crate_derivations, cache_file, n_concurrent_tasks,
                    pc, result, old_hashes, hashes, packages, next_task,
                    inflight, failed, abandoned, triples, invocations,
                    fetch_result, pb_len, pb_pos, reads, writes, file_before,
                    prev_run >>
    /\ UNCHANGED << build_vars, fetch_vars >>

\* Faulty variant of TaskFetched: the resolved source is written to the
\* derivation as soon as the task yields.
TaskFetchedWritingBack ==
    /\ pc = "running"
    /\ ready_queue # << >>
    /\ BufferFilled
    /\ NeedsFetch(PolledPackage)
    /\ outcome[Polled] # None
    /\ LET sha == Fetch(PolledPackage, outcome[Polled][1])
       IN  /\ sha.ok
           /\ triples' = Append(triples, Triple(PolledPackage, sha.value))
           /\ fetch_result' =
                [fetch_result EXCEPT ![PolledPackage.package_id] = Some(sha.value)]
           /\ crate_derivations' =
                [crate_derivations EXCEPT
                   ![packages[Polled]].source = WithSha256(@, sha.value)]
    /\ pb_pos' = pb_pos + 1
    /\ inflight' = inflight \ {Polled}
    /\ ready_queue' = Tail(ready_queue)
    /\ UNCHANGED << input, cache_file, n_concurrent_tasks,
                    pc, result, old_hashes, hashes, packages, next_task,
                    running, outcome, failed, abandoned, invocations, pb_len,
                    reads, writes, file_before, prev_run >>
    /\ UNCHANGED << build_vars, fetch_vars >>

\* Faulty variant of TaskFetched: the task itself writes its hash through
\* to the cache file.
TaskFetchedWritingThrough ==
    /\ pc = "running"
    /\ ready_queue # << >>
    /\ BufferFilled
    /\ NeedsFetch(PolledPackage)
    /\ outcome[Polled] # None
    /\ LET sha == Fetch(PolledPackage, outcome[Polled][1])
       IN  /\ sha.ok
           /\ triples' = Append(triples, Triple(PolledPackage, sha.value))
           /\ fetch_result' =
                [fetch_result EXCEPT ![PolledPackage.package_id] = Some(sha.value)]
           /\ cache_file' =
                Json(Insert(LoadedHashes(cache_file),
                            PolledPackage.package_id, sha.value))
    /\ writes' = writes + 1
    /\ pb_pos' = pb_pos + 1
    /\ inflight' = inflight \ {Polled}
    /\ ready_queue' = Tail(ready_queue)
    /\ UNCHANGED << input, crate_derivations, n_concurrent_tasks, pc, result,
                    old_hashes, hashes, packages, next_task, running, outcome,
                    failed, abandoned, invocations, pb_len, reads,
                    file_before, prev_run >>
    /\ UNCHANGED << build_vars, fetch_vars >>

\* A woken task whose fetch succeeded bumps the progress bar and yields its
\* triple.
TaskFetched ==
    /\ pc = "running"
    /\ ready_queue # << >>
    /\ BufferFilled
    /\ NeedsFetch(PolledPackage)
    /\ outcome[Polled] # None
    /\ LET sha == Fetch(PolledPackage, outcome[Polled][1])
       IN  /\ sha.ok
           /\ triples' = Append(triples, Triple(PolledPackage, sha.value))
           /\ fetch_result' =
                [fetch_result EXCEPT ![PolledPackage.package_id] = Some(sha.value)]
    /\ pb_pos' = pb_pos + 1
    /\ inflight' = inflight \ {Polled}
    /\ ready_queue' = Tail(ready_queue)
    /\ UNCHANGED << input, crate_derivations, cache_file, n_concurrent_tasks,
                    pc, result, old_hashes, hashes, packages, next_task,
                    running, outcome, failed, abandoned, invocations, pb_len,
                    reads, writes, file_before, prev_run >>
    /\ UNCHANGED << build_vars, fetch_vars >>

\* try_collect()? returns the error of the polled task at once; the tasks
\* still in the buffer are dropped, their commands keep running.
Abort(error) ==
    /\ Return(error)
    /\ failed' = failed \cup {Polled}
    /\ abandoned' = inflight \ {Polled}
    /\ inflight' = {}
    /\ ready_queue' = << >>
    /\ UNCHANGED << input, crate_derivations, n_concurrent_tasks, old_hashes,
                    hashes, packages, next_task, running, outcome, triples,
                    fetch_result, pb_len, pb_pos, reads, file_before,
                    prev_run >>

\* A task without a cached hash, polled for the first time, cannot start its
\* external command.
TaskSpawnFailed ==
    /\ pc = "running"
    /\ ready_queue # << >>
    /\ BufferFilled
    /\ NeedsFetch(PolledPackage)
    /\ outcome[Polled] = None
    /\ invocations' = [invocations EXCEPT ![PolledPackage.package_id] = @ + 1]
    /\ Abort(Fetch(PolledPackage, SpawnFailure).error)
    /\ UNCHANGED << cache_file, writes >>
    /\ UNCHANGED << build_vars, fetch_vars >>

\* Faulty variant of TaskFailed: the fetch is tried again.
TaskFailedRetrying ==
    /\ pc = "running"
    /\ ready_queue # << >>
    /\ BufferFilled
    /\ NeedsFetch(PolledPackage)
    /\ outcome[Polled] # None
    /\ ~Fetch(PolledPackage, outcome[Polled][1]).ok
    /\ outcome' = [outcome EXCEPT ![Polled] = None]
    /\ UNCHANGED << input, crate_derivations, cache_file, n_concurrent_tasks,
                    pc, result, old_hashes, hashes, packages, next_task,
                    inflight, ready_queue, running, failed, abandoned,
                    triples, invocations, fetch_result, pb_len, pb_pos, reads,
                    writes, file_before, prev_run >>
    /\ UNCHANGED << build_vars, fetch_vars >>

\* Faulty variant of TaskFailed: what the sibling tasks have yielded so far
\* is persisted before the error is returned.
TaskFailedPersisting ==
    /\ pc = "running"
    /\ ready_queue # << >>
    /\ BufferFilled
    /\ NeedsFetch(PolledPackage)
    /\ outcome[Polled] # None
    /\ LET sha == Fetch(PolledPackage, outcome[Polled][1])
       IN  /\ ~sha.ok
           /\ Abort(sha.error)
    /\ cache_file' =
         Json([ id \in { triples[j].package_id : j \in 1..Len(triples) } |->
                  LET j == CHOOSE n \in 1..Len(triples) :
                             triples[n].package_id = id
                  IN  triples[j].sha256 ])
    /\ writes' = writes + 1
    /\ UNCHANGED invocations
    /\ UNCHANGED << build_vars, fetch_vars >>

\* A woken task whose fetch failed.
TaskFailed ==
    /\ pc = "running"
    /\ ready_queue # << >>
    /\ BufferFilled
    /\ NeedsFetch(PolledPackage)
    /\ outcome[Polled] # None
    /\ LET sha == Fetch(PolledPackage, outcome[Polled][1])
       IN  /\ ~sha.ok
           /\ Abort(sha.error)
    /\ UNCHANGED << cache_file, writes, invocations >>
    /\ UNCHANGED << build_vars, fetch_vars >>

\* The command of a dropped task exits; nobody takes its output.
AbandonedCommandExits(i) ==
    /\ pc = "done"
    /\ i \in running
    /\ running' = running \ {i}
    /\ UNCHANGED << input, crate_derivations, cache_file, n_concurrent_tasks,
                    pc, result, old_hashes, hashes, packages, next_task,
                    inflight, ready_queue, outcome, failed, abandoned,
                    triples, invocations, fetch_result, pb_len, pb_pos, reads,
                    writes, file_before, prev_run >>
    /\ UNCHANGED << build_vars, fetch_vars >>

\* All tasks have yielded: the loop over packages zipped with the triples.
Reassemble ==
    /\ pc = "running"
    /\ Len(triples) = Len(packages)
    /\ crate_derivations' = ZipSources(crate_derivations, packages, triples)
    /\ hashes' = InsertTriples(hashes, crate_derivations, packages, triples, 1)
    /\ pc' = "persist"
    /\ UNCHANGED << input, cache_file, n_concurrent_tasks, result,
                    old_hashes, packages, next_task, inflight,
                    ready_queue, running, outcome, abandoned,
                    triples, invocations, fetch_result, pb_len, pb_pos, reads,
                    writes, file_before, prev_run, failed >>
    /\ UNCHANGED << build_vars, fetch_vars >>

\* hashes == old_hashes: nothing is written.
PersistSkip ==
    /\ pc = "persist"
    /\ ~WriteNeeded(hashes, old_hashes)
    /\ Return("ok")
    /\ UNCHANGED << input, crate_derivations, cache_file, n_concurrent_tasks,
                    old_hashes, hashes, packages, next_task, inflight,
                    ready_queue, running, outcome,
                    abandoned, triples, invocations, fetch_result, pb_len,
                    pb_pos, reads, writes, file_before, prev_run, failed >>
    /\ UNCHANGED << build_vars, fetch_vars >>

\* fs::write of the new mapping succeeds.
PersistWrite ==
    /\ pc = "persist"
    /\ WriteNeeded(hashes, old_hashes)
    /\ cache_file' = Json(hashes)
    /\ writes' = writes + 1
    /\ Return("ok")
    /\ UNCHANGED << input, crate_derivations, n_concurrent_tasks,
                    old_hashes, hashes, packages, next_task, inflight,
                    ready_queue, running, outcome,
                    abandoned, triples, invocations, fetch_result, pb_len,
                    pb_pos, reads, file_before, prev_run, failed >>
    /\ UNCHANGED << build_vars, fetch_vars >>

\* fs::write fails: the file is as it was, or truncated.
PersistFailed ==
    /\ pc = "persist"
    /\ WriteNeeded(hashes, old_hashes)
    /\ cache_file' \in {cache_file, Corrupt}
    /\ writes' = writes + 1
    /\ Return("WriteFailed")
    /\ UNCHANGED << input, crate_derivations, n_concurrent_tasks,
                    old_hashes, hashes, packages, next_task, inflight,
                    ready_queue, running, outcome,
                    abandoned, triples, invocations, fetch_result, pb_len,
                    pb_pos, reads, file_before, prev_run, failed >>
    /\ UNCHANGED << build_vars, fetch_vars >>

\* The tool is run again on the same package list.
NextRun ==
    /\ pc = "done"
    /\ prev_run' = IF result = "ok"
                   THEN [ok |-> TRUE, hashes |-> hashes,
                         file_kind |-> file_before.kind]
                   ELSE NoRun
    /\ crate_derivations' = input
    /\ pc' = "start"
    /\ result' = "none"
    /\ old_hashes' = EmptyMap
    /\ hashes' = EmptyMap
    /\ packages' = << >>
    /\ next_task' = 1
    /\ inflight' = {}
    /\ ready_queue' = << >>
    /\ running' = {}
    /\ outcome' = NoOutcomes
    /\ failed' = {}
    /\ abandoned' = {}
    /\ triples' = << >>
    /\ invocations' = NoInvocations
    /\ fetch_result' = NoFetches
    /\ pb_len' = 0
    /\ pb_pos' = 0
    /\ reads' = 0
    /\ writes' = 0
    /\ file_before' = cache_file
    /\ UNCHANGED << input, cache_file, n_concurrent_tasks >>
    /\ UNCHANGED << build_vars, fetch_vars >>

Next ==
    \/ LoadCacheCorrupt
    \/ LoadCache
    \/ Admit
    \/ TaskCached
    \/ TaskSpawned
    \/ TaskSpawnFailed
    \/ \E i \in 1..MaxPackages : CommandExits(i)
    \/ TaskFetched
    \/ TaskFailed
    \/ \E i \in 1..MaxPackages : AbandonedCommandExits(i)
    \/ Reassemble
    \/ PersistSkip
    \/ PersistWrite
    \/ PersistFailed
    \/ NextRun

Spec == Init /\ [][Next]_vars

\* The steps of a run: every step but the start of another run and the exit
\* of a command nobody waits for.
RunStep ==
    \/ LoadCacheCorrupt
    \/ LoadCache
    \/ Admit
    \/ TaskCached
    \/ TaskSpawned
    \/ TaskSpawnFailed
    \/ \E i \in 1..MaxPackages : CommandExits(i)
    \/ TaskFetched
    \/ TaskFailed
    \/ Reassemble
    \/ PersistSkip
    \/ PersistWrite
    \/ PersistFailed

\* The runtime keeps polling the future of prefetch while it can make a
\* step, and every external command that was started and is waited for exits.
FairSpec == Spec /\ WF_vars(RunStep)

(***************************************************************************)
(* One call of nix_build.                                                  *)
(***************************************************************************)
\* prefetch is not called.
PrefetchIdle ==
    /\ input = << >>
    /\ crate_derivations = input
    /\ cache_file = Missing
    /\ n_concurrent_tasks = 1
    /\ pc = "start"
    /\ result = "none"
    /\ old_hashes = EmptyMap
    /\ hashes = EmptyMap
    /\ packages = << >>
    /\ next_task = 1
    /\ inflight = {}
    /\ ready_queue = << >>
    /\ running = {}
    /\ outcome = NoOutcomes
    /\ failed = {}
    /\ abandoned = {}
    /\ triples = << >>
    /\ invocations = NoInvocations
    /\ fetch_result = NoFetches
    /\ pb_len = 0
    /\ pb_pos = 0
    /\ reads = 0
    /\ writes = 0
    /\ file_before = cache_file
    /\ prev_run = NoRun

BuildInit ==
    /\ PrefetchIdle
    /\ default_nix \in BuildFiles
    /\ build_pc = "start"
    /\ nix_status = None
    /\ dumped = << >>
    /\ idx = 0
    /\ build_result = "none"
    /\ FetchIdle

\* nix_build returns.
BuildReturn(res) ==
    /\ build_pc' = "done"
    /\ build_result' = res

\* Command::status() cannot start the builder.
BuildSpawnFailed ==
    /\ build_pc = "start"
    /\ BuildReturn(Err("ProcessSpawnFailed"))
    /\ UNCHANGED << default_nix, nix_status, dumped, idx >>
    /\ UNCHANGED << prefetch_vars, fetch_vars >>

\* The builder is started; its output goes to the user directly.
BuildSpawned ==
    /\ build_pc = "start"
    /\ build_pc' = "building"
    /\ UNCHANGED << default_nix, nix_status, dumped, idx, build_result >>
    /\ UNCHANGED << prefetch_vars, fetch_vars >>

\* .status().await yields the builder's exit status.
BuilderExits ==
    /\ build_pc = "building"
    /\ \E st \in BuilderStatuses : nix_status' = Some(st)
    /\ build_pc' = "exited"
    /\ UNCHANGED << default_nix, dumped, idx, build_result >>
    /\ UNCHANGED << prefetch_vars, fetch_vars >>

\* status.success(): "Built .. successfully." and Ok(()).
BuildSucceeded ==
    /\ build_pc = "exited"
    /\ nix_status[1].success
    /\ BuildReturn(Ok(<< >>))
    /\ UNCHANGED << default_nix, nix_status, dumped, idx >>
    /\ UNCHANGED << prefetch_vars, fetch_vars >>

\* dump_with_lines: File::open fails, and nix_build returns that error.
DumpOpenFailed ==
    /\ build_pc = "exited"
    /\ ~nix_status[1].success
    /\ default_nix.kind = "unreadable"
    /\ BuildReturn(Err("Io"))
    /\ UNCHANGED << default_nix, nix_status, dumped, idx >>
    /\ UNCHANGED << prefetch_vars, fetch_vars >>

\* dump_with_lines: File::open succeeds.
DumpOpened ==
    /\ build_pc = "exited"
    /\ ~nix_status[1].success
    /\ default_nix.kind = "file"
    /\ build_pc' = "dumping"
    /\ UNCHANGED << default_nix, nix_status, dumped, idx, build_result >>
    /\ UNCHANGED << prefetch_vars, fetch_vars >>

\* dump_with_lines: the next line is read and written with its number.
DumpWriteLine ==
    /\ build_pc = "dumping"
    /\ idx < Len(default_nix.lines)
    /\ IsUtf8(default_nix.lines[idx + 1])
    /\ dumped' = Append(dumped, DumpLine(idx, default_nix.lines[idx + 1]))
    /\ idx' = idx + 1
    /\ UNCHANGED << default_nix, build_pc, nix_status, build_result >>
    /\ UNCHANGED << prefetch_vars, fetch_vars >>

\* dump_with_lines: the next line is not text; line? returns the error and
\* nix_build returns it.
DumpReadFailed ==
    /\ build_pc = "dumping"
    /\ idx < Len(default_nix.lines)
    /\ ~IsUtf8(default_nix.lines[idx + 1])
    /\ BuildReturn(Err("Io"))
    /\ UNCHANGED << default_nix, nix_status, dumped, idx >>
    /\ UNCHANGED << prefetch_vars, fetch_vars >>

\* The dump is complete: bail! with the exit code.
BuildBailed ==
    /\ build_pc = "dumping"
    /\ idx = Len(default_nix.lines)
    /\ BuildReturn(BuildFailed(nix_status[1]))
    /\ UNCHANGED << default_nix, nix_status, dumped, idx >>
    /\ UNCHANGED << prefetch_vars, fetch_vars >>

BuildNext ==
    \/ BuildSpawnFailed
    \/ BuildSpawned
    \/ BuilderExits
    \/ BuildSucceeded
    \/ DumpOpenFailed
    \/ DumpOpened
    \/ DumpWriteLine
    \/ DumpReadFailed
    \/ BuildBailed

BuildSpec == BuildInit /\ [][BuildNext]_vars

(***************************************************************************)
(* One call of a fetcher, nix_prefetch_from_crates_io or                   *)
(* nix_prefetch_from_git, on any derivation.                               *)
(***************************************************************************)
FetchInit ==
    /\ PrefetchIdle
    /\ BuildIdle
    /\ fetcher \in {"nix_prefetch_from_crates_io", "nix_prefetch_from_git"}
    /\ fetch_derivation \in FetchDerivations
    /\ fetch_pc = "start"
    /\ fetch_proc = None
    /\ commands_started = 0
    /\ fetch_value = "none"

\* What the called fetcher returns when its command goes as proc.
Fetcher(proc) ==
    IF fetcher = "nix_prefetch_from_crates_io"
    THEN NixPrefetchFromCratesIo(fetch_derivation, proc)
    ELSE NixPrefetchFromGit(fetch_derivation, proc)

\* The fetcher gets as far as get_command_output.
RunsCommand ==
    \/ fetcher = "nix_prefetch_from_crates_io"
    \/ fetch_derivation.source.kind = "Git"

\* nix_prefetch_from_git on a source that is not Git: the else branch.
FetchInvalidSource ==
    /\ fetch_pc = "start"
    /\ ~RunsCommand
    /\ fetch_value' = Fetcher(SpawnFailure)
    /\ fetch_pc' = "done"
    /\ UNCHANGED << fetcher, fetch_derivation, fetch_proc, commands_started >>
    /\ UNCHANGED << prefetch_vars, build_vars >>

\* get_command_output: the command cannot be spawned.
FetchSpawnFailed ==
    /\ fetch_pc = "start"
    /\ RunsCommand
    /\ commands_started' = commands_started + 1
    /\ fetch_proc' = Some(SpawnFailure)
    /\ fetch_value' = Fetcher(SpawnFailure)
    /\ fetch_pc' = "done"
    /\ UNCHANGED << fetcher, fetch_derivation >>
    /\ UNCHANGED << prefetch_vars, build_vars >>

\* get_command_output: the command is spawned and awaited.
FetchSpawned ==
    /\ fetch_pc = "start"
    /\ RunsCommand
    /\ commands_started' = commands_started + 1
    /\ fetch_pc' = "waiting"
    /\ UNCHANGED << fetcher, fetch_derivation, fetch_proc, fetch_value >>
    /\ UNCHANGED << prefetch_vars, build_vars >>

\* The command exits and the fetcher returns.
FetchReturned ==
    /\ fetch_pc = "waiting"
    /\ \E proc \in FetchExits :
         /\ fetch_proc' = Some(proc)
         /\ fetch_value' = Fetcher(proc)
    /\ fetch_pc' = "done"
    /\ UNCHANGED << fetcher, fetch_derivation, commands_started >>
    /\ UNCHANGED << prefetch_vars, build_vars >>

FetchNext ==
    \/ FetchInvalidSource
    \/ FetchSpawnFailed
    \/ FetchSpawned
    \/ FetchReturned

FetchSpec == FetchInit /\ [][FetchNext]_vars

(***************************************************************************)
(* Properties.                                                             *)
(***************************************************************************)
\* The run has returned Ok.
Succeeded == pc = "done" /\ result = "ok"

\* The k-th package of the list is one the run must resolve: its source, as
\* handed in, is a registry source without a hash or a version-control one.
RequiresHash(k) ==
    \/ input[k].source.kind = "Git"
    \/ input[k].source.kind = "CratesIo" /\ input[k].source.sha256 = None

RequiredIds == { input[k].package_id : k \in { j \in 1..Len(input) : RequiresHash(j) } }

\* The identities of the package list.
ListedIds == { input[k].package_id : k \in 1..Len(input) }

\* The hash obtained for a package in this run: its cache entry, trimmed, or
\* what its own fetch gave.
OwnHash(id) ==
    IF id \in DOMAIN old_hashes THEN Trim(old_hashes[id]) ELSE fetch_result[id][1]

\* C1: after a successful run every selected package's source is its own
\* source as handed in, with the hash obtained for that same package, whatever
\* the order in which the tasks completed.
C1_OwnSourceOwnHash ==
    Succeeded =>
        \A k \in 1..Len(input) :
            RequiresHash(k) =>
                crate_derivations[k].source =
                    [ input[k].source EXCEPT
                        !.sha256 = Some(OwnHash(input[k].package_id)) ]

\* C2 (as amended): after a successful run the returned mapping maps each
\* selected package's identity to its cached hash with surrounding whitespace
\* trimmed when the identity was in the loaded cache, and otherwise to the
\* hash of that package's own fetch, whatever the completion order.
C2_MappingIsTrimmedCacheOrOwnFetch ==
    Succeeded =>
        \A id \in RequiredIds :
            /\ id \in DOMAIN hashes
            /\ IF id \in DOMAIN old_hashes
               THEN hashes[id] = Trim(old_hashes[id])
               ELSE fetch_result[id] # None /\ hashes[id] = fetch_result[id][1]

\* C2 as stated: a cached identity is mapped to the cached hash itself.
C2_MappingIsCacheOrOwnFetch ==
    Succeeded =>
        \A id \in RequiredIds :
            /\ id \in DOMAIN hashes
            /\ IF id \in DOMAIN old_hashes
               THEN hashes[id] = old_hashes[id]
               ELSE fetch_result[id] # None /\ hashes[id] = fetch_result[id][1]

\* C2's case: a cached package and a fetched one, the later of the two in the
\* list completing first, the cached hash carrying whitespace.
C2_Witness ==
    /\ Succeeded
    /\ Len(triples) = 2
    /\ triples[1].package_id > triples[2].package_id
    /\ \E id \in RequiredIds :
         id \in DOMAIN old_hashes /\ old_hashes[id] # Trim(old_hashes[id])
    /\ \E id \in RequiredIds : fetch_result[id] # None

\* C3: at most n_concurrent_tasks fetch tasks are in flight; hence a task is
\* admitted beyond the cap only once a task in flight has completed.
C3_InFlightAtMostCap == Cardinality(inflight) <= n_concurrent_tasks

\* C3's case: more tasks than the cap; a task beyond the cap has been
\* admitted after a completion, and the buffer is full again.
C3_Witness ==
    /\ pc = "running"
    /\ Len(packages) > n_concurrent_tasks
    /\ next_task > n_concurrent_tasks + 1
    /\ Len(triples) >= 1
    /\ Cardinality(inflight) = n_concurrent_tasks

\* C4: when a fetch task fails the run returns an error and the cache file
\* is not written: its content is what it was before the run.
C4_FailedFetchLeavesCacheFile ==
    (pc = "done" /\ failed # {}) =>
        /\ result # "ok"
        /\ writes = 0
        /\ cache_file = file_before

\* C4's case: a fetch fails after a sibling's fetch has succeeded, with a
\* cache file on disk.
C4_Witness ==
    /\ pc = "done"
    /\ failed # {}
    /\ pb_pos >= 1
    /\ Len(triples) >= 1
    /\ file_before.kind = "json"

\* C5: the cache is read once, before any task is dispatched, and written at
\* most once, only when every task has completed: no write has occurred
\* while a task is still queued or in flight.
C5_ReadFirstWriteLast ==
    /\ reads <= 1
    /\ writes <= 1
    /\ (next_task > 1 \/ inflight # {}) => reads = 1
    /\ writes > 0 =>
         /\ inflight = {}
         /\ next_task > Len(packages)
         /\ Len(triples) = Len(packages)

\* C5's case: a run with two tasks, one of them a fetch, has written.
C5_Witness ==
    /\ writes = 1
    /\ reads = 1
    /\ Len(triples) = 2
    /\ pb_pos >= 1

\* C6: no external command is started for a selected package whose identity
\* is in the loaded cache.
C6_CachedPackageStartsNoCommand ==
    \A id \in RequiredIds :
        (pc # "start" /\ id \in DOMAIN old_hashes) => invocations[id] = 0

\* C6's case: a run that resolved one package from the cache and fetched
\* another.
C6_Witness ==
    /\ Succeeded
    /\ \E id \in RequiredIds : id \in DOMAIN old_hashes /\ invocations[id] = 0
    /\ \E id \in RequiredIds : id \notin DOMAIN old_hashes /\ invocations[id] = 1

\* The previous run started without a cache file and succeeded.
AfterFirstRun == prev_run.ok /\ prev_run.file_kind = "missing"

\* C7 (as amended): in the run after a successful run that started without a
\* cache file, no external command is started for a package the first run
\* resolved, and the run returns the first run's mapping with every hash
\* trimmed of surrounding whitespace.
C7_RerunFetchesNothingReturnsTrimmed ==
    AfterFirstRun =>
        /\ \A id \in DOMAIN prev_run.hashes : invocations[id] = 0
        /\ Succeeded =>
             hashes = [ id \in DOMAIN prev_run.hashes |-> Trim(prev_run.hashes[id]) ]

\* C7 as stated: the second run returns the same mapping as the first.
C7_RerunReturnsSameMapping ==
    AfterFirstRun =>
        /\ \A id \in DOMAIN prev_run.hashes : invocations[id] = 0
        /\ Succeeded => hashes = prev_run.hashes

\* C7's case: the second run has returned, the first having resolved two
\* packages.
C7_Witness ==
    /\ AfterFirstRun
    /\ Succeeded
    /\ Cardinality(DOMAIN prev_run.hashes) = 2
    /\ Len(triples) = 2

\* C8: a write of the cache file occurs only when the reconciled mapping
\* differs from the loaded one; when they are equal at the end of a
\* successful run, nothing was written and the file is as it was.
C8_WriteOnlyOnChange ==
    /\ writes > 0 => hashes # old_hashes
    /\ (Succeeded /\ hashes = old_hashes) => (writes = 0 /\ cache_file = file_before)

\* C8's case: a successful run over a non-empty mapping equal to the loaded
\* one.
C8_Witness ==
    /\ Succeeded
    /\ hashes = old_hashes
    /\ hashes # EmptyMap
    /\ writes = 0

\* C9: after a successful run, an identity the loaded cache held and the
\* package list lacks has no entry in the cache file.
C9_StaleEntriesDropped ==
    Succeeded =>
        \A id \in DOMAIN old_hashes \ ListedIds :
            cache_file.kind = "json" /\ id \notin DOMAIN cache_file.map

\* C9's case: the loaded cache held a stale identity next to one still in
\* use.
C9_Witness ==
    /\ Succeeded
    /\ DOMAIN old_hashes \ ListedIds # {}
    /\ DOMAIN old_hashes \cap RequiredIds # {}
    /\ DOMAIN cache_file.map # {}

\* C10 (as amended): on success every selected package of the list has an
\* entry in the returned mapping.
C10_SelectedPackagesHaveEntries ==
    Succeeded => \A id \in RequiredIds : id \in DOMAIN hashes

\* C10 as stated: every package of the list has an entry.
C10_AllPackagesHaveEntries ==
    Succeeded => \A id \in ListedIds : id \in DOMAIN hashes

\* C10's case: a cached package and a fetched package are both returned.
C10_Witness ==
    /\ Succeeded
    /\ \E id \in RequiredIds : id \in DOMAIN old_hashes /\ id \in DOMAIN hashes
    /\ \E id \in RequiredIds : fetch_result[id] # None /\ id \in DOMAIN hashes

(***************************************************************************)
(* C11.  When the builder exits without success, nix_build writes the      *)
(* whole build file to standard output, line i as the number i             *)
(* right-aligned in five columns, ": " and the text of the line, and then  *)
(* fails with BuildFailed carrying the exit code; when the builder         *)
(* succeeds nothing is dumped and nix_build returns Ok.                    *)
(***************************************************************************)
NumberedLines(lines) ==
    [ i \in 1..Len(lines) |->
        PadLeft(Digits(i), DumpWidth) \o << ":", " " >> \o lines[i] ]

C11_FailureDumpsThenBuildFailed ==
    (build_pc = "done" /\ nix_status # None) =>
        IF nix_status[1].success
        THEN dumped = << >> /\ build_result = Ok(<< >>)
        ELSE /\ dumped = NumberedLines(default_nix.lines)
             /\ build_result.error = "BuildFailed"
             /\ nix_status[1].code # None =>
                    build_result.code = nix_status[1].code[1]

(***************************************************************************)
(* C12.  The packages selected for prefetching are exactly those whose     *)
(* source is CratesIo without a hash or Git; for every other package no    *)
(* external command is ever started and its source is the one it had       *)
(* before the run.                                                         *)
(***************************************************************************)
SelectionDone ==
    pc \in {"running", "persist"} \/ (pc = "done" /\ result # "CacheCorrupt")

C13_InFlightTasksRunToCompletion ==
    (pc = "done" /\ failed # {} /\ running = {}) =>
        /\ \A i \in abandoned :
             NeedsFetch(crate_derivations[packages[i]]) =>
                invocations[crate_derivations[packages[i]].package_id] = 1
        /\ result # "ok"
        /\ crate_derivations = input
        /\ cache_file = file_before

(***************************************************************************)
(* C14.  The position of the progress bar is the number of external        *)
(* fetches of the run that have completed with a hash: a cache hit or a    *)
(* failed fetch adds nothing; and no step of a run lowers the position.    *)
(***************************************************************************)
\* Tasks whose command exited and that have yielded a hash.
CompletedFetches ==
    { i \in 1..Len(packages) :
        /\ outcome[i] # None
        /\ i \notin inflight \cup abandoned \cup failed }

C14_ProgressCountsCompletedFetches ==
    /\ [](pb_pos = Cardinality(CompletedFetches))
    /\ [][pc' # "start" => pb_pos' >= pb_pos]_vars

\* A run has ended in which one task was a cache hit and one a fetch.
C14_Witness ==
    /\ Succeeded
    /\ Len(triples) = 2
    /\ pb_pos = 1

(***************************************************************************)
(* C15.  The length of the progress bar is the number of distinct sources  *)
(* among the selected packages without a cached hash; the position never   *)
(* exceeds the length, and equals it when the run has succeeded.           *)
(***************************************************************************)
UncachedSelected ==
    { k \in 1..Len(input) :
        RequiresHash(k) /\ input[k].package_id \notin DOMAIN old_hashes }

C15_PositionAtMostTotal ==
    /\ SelectionDone =>
         pb_len = Cardinality({ input[k].source : k \in UncachedSelected })
    /\ pb_pos <= pb_len
    /\ Succeeded => pb_pos = pb_len

(***************************************************************************)
(* C16.  In one run at most one external command is started for any        *)
(* package; a package whose fetch failed has had exactly one.              *)
(***************************************************************************)
C16_AtMostOneCommandPerPackage ==
    /\ \A id \in 1..MaxPackages : invocations[id] <= 1
    /\ \A i \in failed :
         invocations[crate_derivations[packages[i]].package_id] = 1

\* A run of two fetches has ended with the failure of one of them.
C16_Witness ==
    /\ pc = "done"
    /\ failed # {}
    /\ Len(input) = 2
    /\ \A id \in 1..2 : invocations[id] = 1

(***************************************************************************)
(* C17.  A cache file that is missing, or that cannot be read as text, is  *)
(* loaded as the empty mapping and the run goes on; a file that is text    *)
(* but not a JSON object of hashes makes the run fail with CacheCorrupt    *)
(* with no task admitted, no command started, no derivation changed and    *)
(* no write of the cache file.                                             *)
(***************************************************************************)
NothingDone ==
    /\ next_task = 1
    /\ packages = << >>
    /\ \A id \in 1..MaxPackages : invocations[id] = 0
    /\ crate_derivations = input
    /\ writes = 0
    /\ cache_file = file_before

C17_UnreadableIsEmptyMalformedFails ==
    /\ (pc # "start" /\ file_before.kind \in {"missing", "not_text"}) =>
          old_hashes = EmptyMap /\ result # "CacheCorrupt"
    /\ (pc # "start" /\ file_before.kind = "corrupt") =>
          pc = "done" /\ result = "CacheCorrupt" /\ NothingDone

\* C17 as stated: every existing file that is not a JSON object of hashes
\* makes the run fail with CacheCorrupt.
C17_ExistingNonJsonFails ==
    /\ (pc # "start" /\ file_before.kind = "missing") =>
          old_hashes = EmptyMap /\ result # "CacheCorrupt"
    /\ (pc # "start" /\ file_before.kind \in {"corrupt", "not_text"}) =>
          pc = "done" /\ result = "CacheCorrupt" /\ NothingDone

\* A run over a list with a package to fetch has failed on a malformed file.
C17_Witness ==
    /\ pc = "done"
    /\ result = "CacheCorrupt"
    /\ file_before.kind = "corrupt"
    /\ \E k \in 1..Len(input) : RequiresHash(k)

(***************************************************************************)
(* C18.  A fetcher returns a hash exactly when its command was spawned,    *)
(* exited with success and printed text (and, for nix_prefetch_from_git,   *)
(* a payload that parses): the hash is the trimmed output, respectively    *)
(* the sha256 field of the payload.  In every other case it returns an     *)
(* error and no hash; nix_prefetch_from_git on a source that is not Git    *)
(* returns an error without starting a command.                            *)
(***************************************************************************)
\* The text between the braces of a payload "{" sha256 "}".
Sha256Field(json) == SubSeq(json, 2, Len(json) - 1)

IsPayload(json) == Len(json) >= 2 /\ json[1] = "{" /\ json[Len(json)] = "}"

C18_HashOnlyFromSuccessfulCommand ==
    fetch_pc = "done" =>
        IF fetcher = "nix_prefetch_from_git"
           /\ fetch_derivation.source.kind # "Git"
        THEN ~fetch_value.ok /\ fetch_value.value = << >>
             /\ commands_started = 0
        ELSE
          LET proc == fetch_proc[1]
              text == Trim(proc.stdout)
              good == /\ proc.status = "success"
                      /\ IsUtf8(proc.stdout)
                      /\ fetcher = "nix_prefetch_from_git" => IsPayload(text)
          IN  /\ commands_started = 1
              /\ fetch_value.ok <=> good
              /\ ~fetch_value.ok => fetch_value.value = << >>
              /\ fetch_value.ok =>
                   fetch_value.value =
                     IF fetcher = "nix_prefetch_from_git"
                     THEN Sha256Field(text) ELSE text

\* nix_prefetch_from_git has returned the field of a payload that was
\* printed with a newline after it.
C18_Witness ==
    /\ fetch_pc = "done"
    /\ fetcher = "nix_prefetch_from_git"
    /\ fetch_value.ok
    /\ fetch_value.value # fetch_proc[1].stdout
    /\ fetch_value.value = << " ", "b" >>

(***************************************************************************)
(* C19.  A run in which a fetch task failed leaves every derivation's      *)
(* source as it was before the run; sources are written back only when     *)
(* every task has yielded and none has failed.                             *)
(***************************************************************************)
C19_FailedRunLeavesDerivations ==
    /\ failed # {} => crate_derivations = input
    /\ crate_derivations # input =>
         failed = {} /\ Len(triples) = Len(packages)

\* A run has failed after a sibling task had yielded a resolved source,
\* which the derivation of that task does not carry.
C19_Witness ==
    /\ pc = "done"
    /\ failed # {}
    /\ Len(triples) = 1
    /\ \E k \in 1..Len(input) :
         /\ crate_derivations[k].package_id = triples[1].package_id
         /\ crate_derivations[k].source # triples[1].source

(***************************************************************************)
(* C20.  With every started command exiting, a run ends: from every state  *)
(* of a run a state is reached in which prefetch has returned.  A task     *)
(* waiting for admission is admitted unless the run ends with an error     *)
(* first.  A run that returns Ok has had every task yield, and the cache   *)
(* file then loads as the returned mapping.                                *)
(***************************************************************************)
EndsWell ==
    pc = "done" =>
        /\ result # "none"
        /\ result = "ok" =>
             /\ next_task > Len(packages)
             /\ Len(triples) = Len(packages)
             /\ LoadedHashes(cache_file) = hashes

C20_RunEndsTasksAdmittedUnlessError ==
    /\ (pc # "done") ~> (pc = "done")
    /\ \A i \in 1..MaxPackages :
         (pc = "running" /\ i <= Len(packages)) ~>
            (next_task > i \/ (pc = "done" /\ result # "ok"))
    /\ []EndsWell

\* C20 as stated: every queued task is admitted.
C20_RunEndsEveryTaskAdmitted ==
    /\ (pc # "done") ~> (pc = "done")
    /\ \A i \in 1..MaxPackages :
         (pc = "running" /\ i <= Len(packages)) ~> (next_task > i)
    /\ []EndsWell

\* A run with more tasks than the cap has returned Ok after writing the file.
C20_Witness ==
    /\ Succeeded
    /\ Len(packages) > n_concurrent_tasks
    /\ writes = 1
    /\ LoadedHashes(cache_file) = hashes

====
